---- MODULE Spec2Model ----
(***************************************************************************)
(* The rate-limited Gemini adapter of src/gemini_service.py: the           *)
(* process-wide RateLimiter, SimpleGeminiGenerator.generate() with its     *)
(* retry loop and fallback synthesis, and SimpleGeminiEmbedder.embed().    *)
(*                                                                         *)
(* Callers are asyncio tasks of one event loop.  A task runs without       *)
(* interruption until it suspends, and the only suspension points of this  *)
(* code are asyncio.sleep() (limiter wait, retry backoff) and the          *)
(* acquisition of an asyncio.Lock that is already held; the vendor calls   *)
(* generate_content() and embed_content() are blocking calls.  Each action *)
(* below is therefore the code a task runs between two suspension points   *)
(* (embed() is cut once more, after each item of the batch).               *)
(*                                                                         *)
(* Time is the value of time.time(), counted in ticks; the 60 s and        *)
(* 86400 s windows and the two call limits are scaled down to Minute, Day, *)
(* CallsPerMinute and CallsPerDay.                                         *)
(***************************************************************************)
EXTENDS Integers, Sequences, FiniteSets, TLC

\* ------------------------------------------------------------------ sizes

\* The asyncio tasks that call generate() and embed().
Tasks == {"t1", "t2"}

\* Largest value of time.time() the model reaches.
MaxClock == 3

\* Length of the per-minute window (60 s in the code), in ticks.
Minute == 2

\* Length of the per-day window (86400 s in the code), in ticks.
Day == 3

\* RateLimiter(calls_per_minute, calls_per_day), scaled down from (10, 50).
CallsPerMinute == 2

CallsPerDay == 3

\* Number of generate() and embed() calls issued in one run, in total.
MaxCalls == 2

\* Largest batch handed to embed().
MaxBatch == 2

\* Number of field names of the schemas handed to fallback synthesis.
MaxFields == 2

\* generate() passes max_retries=3; base_delay defaults to 1.0.
MaxRetries == 3

BaseDelay == 1

\* [0.1] * 768, and the dimensions of text-embedding-004.
Dimensions == 768

\* Length of the text _generate_once wraps around the prompt and the sample.
TemplateLen == 181

\* The generator's model_name.
ModelName == "gemini-2.0-flash"

None == "none"

\* ------------------------------------------------------------------ text
\* Error messages are sequences of characters, so that the substring tests
\* of the retry loop are computed and not assumed.

UpperCase ==
    <<"A", "B", "C", "D", "E", "F", "G", "H", "I", "J", "K", "L", "M", "N", "O", "P", "Q", "R",
      "S", "T", "U", "V", "W", "X", "Y", "Z">>

LowerCase ==
    <<"a", "b", "c", "d", "e", "f", "g", "h", "i", "j", "k", "l", "m", "n", "o", "p", "q", "r",
      "s", "t", "u", "v", "w", "x", "y", "z">>

\* str.lower() on one character.
LowerChar(c) ==
    IF \E i \in 1..Len(UpperCase) : UpperCase[i] = c
    THEN LowerCase[CHOOSE i \in 1..Len(UpperCase) : UpperCase[i] = c]
    ELSE c

\* str.lower()
Lower(s) == [i \in 1..Len(s) |-> LowerChar(s[i])]

\* sub in s
Contains(sub, s) ==
    \E i \in 1..(Len(s) - Len(sub) + 1) : SubSeq(s, i, i + Len(sub) - 1) = sub

\* The two literals the retry loop searches for.
QuotaWord == <<"q", "u", "o", "t", "a">>

DayWord == <<"d", "a", "y">>

\* Raised by wait_if_needed() when the flag is already set.
MsgAlreadyExhausted ==
    <<"D", "a", "i", "l", "y", " ", "q", "u", "o", "t", "a", " ", "a", "l", "r", "e", "a", "d",
      "y", " ", "e", "x", "h", "a", "u", "s", "t", "e", "d", ".", " ", "S", "e", "r", "v", "i",
      "c", "e", " ", "i", "s", " ", "t", "e", "m", "p", "o", "r", "a", "r", "i", "l", "y", " ",
      "u", "n", "a", "v", "a", "i", "l", "a", "b", "l", "e", ".">>

\* Raised by wait_if_needed() when the per-day window is full.
MsgDailyExceeded ==
    <<"D", "a", "i", "l", "y", " ", "q", "u", "o", "t", "a", " ", "e", "x", "c", "e", "e", "d",
      "e", "d", ".", " ", "P", "l", "e", "a", "s", "e", " ", "t", "r", "y", " ", "a", "g", "a",
      "i", "n", " ", "t", "o", "m", "o", "r", "r", "o", "w", ".">>

\* Messages of the errors the vendor API raises: a per-day quota error, a
\* per-minute quota error, a 429 that does not speak of a quota, and any
\* other failure (network, unparsable or invalid model output).
MsgRemotePerDay ==
    <<"Q", "u", "o", "t", "a", " ", "e", "x", "c", "e", "e", "d", "e", "d", ":", " ", "r", "e",
      "q", "u", "e", "s", "t", "s", " ", "p", "e", "r", " ", "d", "a", "y">>

MsgRemotePerMinute ==
    <<"Q", "u", "o", "t", "a", " ", "e", "x", "c", "e", "e", "d", "e", "d", ":", " ", "r", "e",
      "q", "u", "e", "s", "t", "s", " ", "p", "e", "r", " ", "m", "i", "n", "u", "t", "e">>

MsgRemoteOverloaded ==
    <<"R", "e", "s", "o", "u", "r", "c", "e", " ", "h", "a", "s", " ", "b", "e", "e", "n", " ",
      "e", "x", "h", "a", "u", "s", "t", "e", "d">>

MsgRemoteOther ==
    <<"C", "o", "n", "n", "e", "c", "t", "i", "o", "n", " ", "r", "e", "s", "e", "t">>

\* The message of the ValidationError model_validate() raises.
MsgValidation ==
    <<"1", " ", "v", "a", "l", "i", "d", "a", "t", "i", "o", "n", " ", "e", "r", "r", "o", "r">>

\* ------------------------------------------------------------ model output
\* The text the model answers with, and what _generate_once makes of it.

\* The grave accent, the character of a code fence.
Grave == "GRAVE"

\* The opening of a fence that names its language, and the plain fence.
FenceJson == <<Grave, Grave, Grave, "j", "s", "o", "n">>

Fence == <<Grave, Grave, Grave>>

Whitespace == {" ", "\n", "\t"}

\* str.lstrip() and str.rstrip()
RECURSIVE lstrip(_)
lstrip(text) ==
    IF text # <<>> /\ Head(text) \in Whitespace THEN lstrip(Tail(text)) ELSE text

RECURSIVE rstrip(_)
rstrip(text) ==
    IF text # <<>> /\ text[Len(text)] \in Whitespace
    THEN rstrip(SubSeq(text, 1, Len(text) - 1)) ELSE text

\* str.strip()
strip(text) == rstrip(lstrip(text))

\* str.startswith(prefix)
startswith(text, prefix) ==
    Len(text) >= Len(prefix) /\ SubSeq(text, 1, Len(prefix)) = prefix

\* str.endswith(suffix)
endswith(text, suffix) ==
    Len(text) >= Len(suffix) /\ SubSeq(text, Len(text) - Len(suffix) + 1, Len(text)) = suffix

\* text[len(prefix):] if text.startswith(prefix)
DropPrefix(text, prefix) ==
    IF startswith(text, prefix) THEN SubSeq(text, Len(prefix) + 1, Len(text)) ELSE text

\* text[:-len(suffix)] if text.endswith(suffix)
DropSuffix(text, suffix) ==
    IF endswith(text, suffix) THEN SubSeq(text, 1, Len(text) - Len(suffix)) ELSE text

\* The clean-up of response.text: strip, drop an opening fence that names
\* json, then an opening fence, then a closing fence, strip.
Clean(text) ==
    strip(DropSuffix(DropPrefix(DropPrefix(strip(text), FenceJson), Fence), Fence))

\* A JSON object that the generator's schema accepts, and one that it rejects.
DocAccepted == <<"{", "\"", "a", "\"", ":", " ", "1", "}">>

DocRejected == <<"{", "\"", "a", "\"", ":", " ", "n", "u", "l", "l", "}">>

\* An answer in plain words.
Prose == <<"S", "o", "r", "r", "y", ",", " ", "I", " ", "c", "a", "n", "n", "o", "t", ".">>

\* The answers of the model: the object alone, the object in a code fence,
\* an object the schema rejects, and plain words.
Responses == {"json", "fenced_json", "bad_json", "prose"}

ResponseText(r) ==
    CASE r = "json" -> DocAccepted
      [] r = "fenced_json" -> FenceJson \o <<"\n">> \o DocAccepted \o <<"\n">> \o Fence \o <<"\n">>
      [] r = "bad_json" -> DocRejected
      [] OTHER -> Prose

\* json.loads(text) returns (TRUE) or raises JSONDecodeError (FALSE).
json_loads(text) == text \in {DocAccepted, DocRejected}

\* ---------------------------------------------------------------- errors
\* The exceptions one attempt can meet, named by where they are raised.

LimiterErrors == {"limiter_flag", "limiter_day"}

RemoteErrors == {"remote_day", "remote_minute", "remote_overloaded", "remote_other"}

\* The ValidationError of model_validate() in _generate_once.
OutputErrors == {"invalid_output"}

\* What the blocking vendor call does once the limiter has let it through:
\* embed_content() returns ("ok") or raises, generate_content() answers or
\* raises.
RemoteResults == {"ok"} \cup RemoteErrors

\* isinstance(e, google.api_core.exceptions.ResourceExhausted)
IsResourceExhausted(e) ==
    e \in {"limiter_flag", "limiter_day", "remote_day", "remote_minute", "remote_overloaded"}

Message(e) ==
    CASE e = "limiter_flag" -> MsgAlreadyExhausted
      [] e = "limiter_day" -> MsgDailyExceeded
      [] e = "remote_day" -> MsgRemotePerDay
      [] e = "remote_minute" -> MsgRemotePerMinute
      [] e = "remote_overloaded" -> MsgRemoteOverloaded
      [] e = "invalid_output" -> MsgValidation
      [] OTHER -> MsgRemoteOther

\* str(e): a google.api_core error prints its status code before its message.
Str(e) ==
    IF IsResourceExhausted(e) THEN <<"4", "2", "9", " ">> \o Message(e) ELSE Message(e)

\* A slip in the exponent: the first delay is already doubled.
RetryDelayDoubled(attempt) == BaseDelay * (2 ^ (attempt + 1))

\* base_delay * (2 ** attempt)
RetryDelay(attempt) == BaseDelay * (2 ^ attempt)

\* error_str = str(e).lower(), then "quota" in error_str and "day" in error_str,
\* for each error.
ErrorWords ==
    [e \in LimiterErrors \cup RemoteErrors \cup OutputErrors |->
        LET error_str == Lower(Str(e))
        IN  [quota |-> Contains(QuotaWord, error_str), day |-> Contains(DayWord, error_str)]]

\* A slip in the second except clause: an error that is no ResourceExhausted
\* is never retried.
ExceptClauseNoRetry(e, attempt) ==
    IF IsResourceExhausted(e)
    THEN LET quota == ErrorWords[e].quota
             day == ErrorWords[e].day
         IN  [mark |-> quota /\ day,
              next |-> IF quota /\ ~day /\ attempt < MaxRetries - 1
                       THEN "backoff" ELSE "fallback",
              delay |-> BaseDelay * (2 ^ attempt)]
    ELSE [mark |-> FALSE, next |-> "fallback", delay |-> BaseDelay * (2 ^ attempt)]

\* The two except clauses of _generate_with_retry for the error e of attempt
\* number `attempt`: whether mark_quota_exhausted() is called, and whether the
\* loop sleeps and continues ("backoff") or returns the fallback ("fallback").
ExceptClause(e, attempt) ==
    IF IsResourceExhausted(e)
    THEN LET quota == ErrorWords[e].quota
             day == ErrorWords[e].day
         IN  [mark |-> quota /\ day,
              next |-> IF quota /\ ~day /\ attempt < MaxRetries - 1
                       THEN "backoff" ELSE "fallback",
              delay |-> RetryDelay(attempt)]
    ELSE [mark |-> FALSE,
          next |-> IF attempt < MaxRetries - 1 THEN "backoff" ELSE "fallback",
          delay |-> RetryDelay(attempt)]

\* ------------------------------------------------------- fallback synthesis
\* Python values are written as their literals.  A schema is what the code
\* reads of a pydantic model: model_json_schema() (required, properties) and
\* model_fields (default, default_factory, annotation); `accepts` is the set
\* of values model_validate() takes for the field.

Undefined == "PydanticUndefined"

EmptyDict == <<>>

\* dict.get(key) / dict.get(key, dflt)
Get(d, key, dflt) == IF key \in DOMAIN d THEN d[key] ELSE dflt

\* class SimpleResponse(BaseModel): message: str; confidence: float
SimpleResponse ==
    [required |-> <<"message", "confidence">>,
     properties |-> [message |-> [type |-> "string"], confidence |-> [type |-> "number"]],
     model_fields |->
        [message |-> [default |-> Undefined, default_factory |-> None, annotation |-> "str",
                      accepts |-> {"'unavailable'", "'sample_value'"}],
         confidence |-> [default |-> Undefined, default_factory |-> None,
                         annotation |-> "float", accepts |-> {"0", "0.0", "0.5"}]]]

\* A model with one required field priority: Literal['low', 'high'].
Ticket ==
    [required |-> <<"priority">>,
     properties |-> [priority |-> [type |-> "string", enum |-> <<"'low'", "'high'">>]],
     model_fields |->
        [priority |-> [default |-> Undefined, default_factory |-> None,
                       annotation |-> "Literal", accepts |-> {"'low'", "'high'"}]]]

\* A model with one optional field count: int = Field(default=5, ge=1).
Counter ==
    [required |-> <<>>,
     properties |-> [count |-> [type |-> "integer", default |-> "5", minimum |-> "1"]],
     model_fields |->
        [count |-> [default |-> "5", default_factory |-> None, annotation |-> "int",
                    accepts |-> {"1", "5"}]]]

Schemas == {"SimpleResponse", "Ticket", "Counter"}

SchemaOf(name) ==
    CASE name = "SimpleResponse" -> SimpleResponse
      [] name = "Ticket" -> Ticket
      [] OTHER -> Counter

Range(s) == {s[i] : i \in DOMAIN s}

RECURSIVE _get_field_default_value(_)
\* A slip in the numeric branch: an integer field is given the float zero.
DefaultValueFloatForInteger(field_info) ==
    LET field_type == Get(field_info, "type", None)
    IN  IF field_type = "array" THEN "[]"
        ELSE IF field_type = "boolean" THEN "False"
        ELSE IF field_type \in {"integer", "number"} THEN "0.0"
        ELSE IF field_type = "object" THEN "{}"
        ELSE IF field_type = "string" THEN "'unavailable'"
        ELSE IF "anyOf" \in DOMAIN field_info
        THEN LET options == field_info["anyOf"]
                 nonNull == {i \in DOMAIN options : Get(options[i], "type", None) # "null"}
             IN  IF nonNull = {} THEN "None"
                 ELSE _get_field_default_value(
                          options[CHOOSE i \in nonNull : \A j \in nonNull : i <= j])
        ELSE IF "enum" \in DOMAIN field_info /\ Len(field_info["enum"]) > 0
        THEN field_info["enum"][1]
        ELSE IF "ref" \in DOMAIN field_info THEN "{}"
        ELSE "'unavailable'"

_get_field_default_value(field_info) ==
    LET field_type == Get(field_info, "type", None)
    IN  IF field_type = "array" THEN "[]"
        ELSE IF field_type = "boolean" THEN "False"
        ELSE IF field_type = "integer" THEN "0"
        ELSE IF field_type = "number" THEN "0.0"
        ELSE IF field_type = "object" THEN "{}"
        ELSE IF field_type = "string" THEN "'unavailable'"
        ELSE IF "anyOf" \in DOMAIN field_info
        THEN LET options == field_info["anyOf"]
                 nonNull == {i \in DOMAIN options : Get(options[i], "type", None) # "null"}
             IN  IF nonNull = {} THEN "None"
                 ELSE _get_field_default_value(
                          options[CHOOSE i \in nonNull : \A j \in nonNull : i <= j])
        ELSE IF "enum" \in DOMAIN field_info /\ Len(field_info["enum"]) > 0
        THEN field_info["enum"][1]
        ELSE IF "ref" \in DOMAIN field_info THEN "{}"
        ELSE "'unavailable'"

\* schema_type.model_validate(instance): every field of the model takes the
\* value given for it; a field the instance leaves out needs a default.
model_validate(schema, instance) ==
    \A name \in DOMAIN schema.model_fields :
        LET field == schema.model_fields[name]
        IN  IF name \in DOMAIN instance
            THEN instance[name] \in field.accepts
            ELSE field.default # Undefined \/ field.default_factory # None

\* A slip: the loop over the optional properties is missing.
FallbackInstanceRequiredOnly(schema) ==
    [name \in Range(schema.required) |->
        _get_field_default_value(Get(schema.properties, name, EmptyDict))]

\* The instance the first try block of _create_fallback_response builds.
fallback_instance(schema) ==
    [name \in Range(schema.required) \cup DOMAIN schema.properties |->
        _get_field_default_value(Get(schema.properties, name, EmptyDict))]

\* The value guessed from a field's annotation in the second try block.
AnnotationDefault(annotation) ==
    CASE annotation = "bool" -> "False"
      [] annotation = "int" -> "0"
      [] annotation = "float" -> "0.0"
      [] annotation = "str" -> "'unavailable'"
      [] annotation \in {"list", "tuple"} -> "[]"
      [] OTHER -> "None"

\* The defaults the second try block builds from model_fields.
minimal_defaults(schema) ==
    [name \in DOMAIN schema.model_fields |->
        LET field == schema.model_fields[name]
        IN  IF field.default # "None" THEN field.default
            ELSE IF field.default_factory # None THEN field.default_factory
            ELSE AnnotationDefault(field.annotation)]

\* A slip: the second try block is missing, the first failure is raised.
CreateFallbackOneTry(schema) ==
    IF model_validate(schema, fallback_instance(schema)) THEN "fallback" ELSE "raised"

\* _create_fallback_response: "fallback" when one of the two try blocks
\* yields a valid instance, "raised" when the second one fails as well.
_create_fallback_response(schema) ==
    IF model_validate(schema, fallback_instance(schema)) THEN "fallback"
    ELSE IF model_validate(schema, minimal_defaults(schema)) THEN "fallback"
    ELSE "raised"

\* _create_fallback_response for each schema of the model.
FallbackOf == [s \in Schemas |-> _create_fallback_response(SchemaOf(s))]

\* The dict the returned content was validated from, for each schema.
FallbackContent ==
    [s \in Schemas |->
        IF model_validate(SchemaOf(s), fallback_instance(SchemaOf(s))) THEN "fallback_instance"
        ELSE IF model_validate(SchemaOf(s), minimal_defaults(SchemaOf(s)))
        THEN "minimal_defaults"
        ELSE None]

\* GenerationInfo(model, duration, usage) of a result; of no result.
NoInfo == [model |-> None, input_tokens |-> 0, output_tokens |-> 0, duration |-> 0]

\* A slip: the fallback bears the plain model name.
FallbackInfoUnmarked ==
    [model |-> ModelName, input_tokens |-> 0, output_tokens |-> 0, duration |-> 0]

\* The info of both try blocks of _create_fallback_response.
FallbackInfo ==
    [model |-> ModelName \o "_fallback", input_tokens |-> 0, output_tokens |-> 0,
     duration |-> 0]

\* ---------------------------------------------------------- _generate_once

\* The sample instance of _generate_once: a value by type for each required
\* field, and for each optional field of type string, integer, number or
\* boolean.
dummy_instance(schema) ==
    LET required_fields == Range(schema.required)
        typeOf(name) == Get(Get(schema.properties, name, EmptyDict), "type", "string")
        optional == {name \in DOMAIN schema.properties \ required_fields :
                        typeOf(name) \in {"string", "integer", "number", "boolean"}}
    IN  [name \in required_fields \cup optional |->
            IF name \in required_fields
            THEN CASE typeOf(name) = "string" -> "'sample_value'"
                   [] typeOf(name) = "integer" -> "1"
                   [] typeOf(name) = "number" -> "0.5"
                   [] typeOf(name) = "boolean" -> "True"
                   [] typeOf(name) = "array" -> "[]"
                   [] typeOf(name) = "object" -> "{}"
                   [] OTHER -> "'default_value'"
            ELSE CASE typeOf(name) = "string" -> "'optional_value'"
                   [] typeOf(name) = "integer" -> "0"
                   [] typeOf(name) = "number" -> "0.0"
                   [] OTHER -> "False"]

\* len(enhanced_prompt) // 4 for the empty prompt and the empty sample, the
\* shortest enhanced prompt there is.
InputTokens == (TemplateLen + Len(<<"{", "}">>)) \div 4

\* _generate_once for a generator of schema s once generate_content() has
\* answered r: the exception it raises (None if it returns), the dict the
\* content was validated from, and the info of the result.  The clock does not
\* move during the blocking call.
_generate_once(r, s) ==
    LET response_text == Clean(ResponseText(r))
        parsed == json_loads(response_text)
        valid == IF parsed THEN response_text = DocAccepted
                 ELSE model_validate(SchemaOf(s), dummy_instance(SchemaOf(s)))
    IN  [error |-> IF valid THEN None ELSE "invalid_output",
         content |-> IF ~valid THEN None ELSE IF parsed THEN "parsed_data" ELSE "dummy_instance",
         info |-> IF valid
                  THEN [model |-> ModelName, input_tokens |-> InputTokens,
                        output_tokens |-> Len(response_text) \div 4, duration |-> 0]
                  ELSE NoInfo]

\* _generate_once for each answer and each schema of the model.
GenerateOnceOf == [r \in Responses |-> [s \in Schemas |-> _generate_once(r, s)]]

\* The answers json.loads() rejects, for which the schema's sample is validated.
Repaired == {r \in Responses : ~json_loads(Clean(ResponseText(r)))}

\* ------------------------------------------------------------------ state

VARIABLES
    clock,                  \* time.time()
    minute_calls,           \* RateLimiter.minute_calls
    day_calls,              \* RateLimiter.day_calls
    daily_quota_exhausted,  \* RateLimiter.daily_quota_exhausted
    lock,                   \* the task holding RateLimiter.lock, or None
    waiters,                \* the tasks queued on RateLimiter.lock, in order
    task,                   \* per task: the call it runs and where it stands
    admitted,               \* history: every timestamp ever recorded
    calls,                  \* history: number of calls issued
    observed,               \* history: a per-day-exhausted error was seen
    remote_calls,           \* history: number of calls of the remote API
    synth,                  \* fallback synthesis on its own: the schema and its runs
    app                     \* the scripts on their own: a run of main() and the agent's session

vars ==
    <<clock, minute_calls, day_calls, daily_quota_exhausted, lock, waiters, task, admitted,
      calls, observed, remote_calls, synth, app>>

\* A task outside any call.  pc: "idle", "attempt" (about to run the body of
\* the retry loop or of the batch loop), "sleeping" (in asyncio.sleep inside
\* wait_if_needed, holding the lock), "blocked" (waiting for the lock),
\* "backoff" (in the retry loop's asyncio.sleep), "done" (the call is over).
\* schema is the generator's schema, written down when the fallback reads it
\* or when its sample is accepted.  content names the dict the returned
\* content was validated from and info is the result's info.
\* batch is len(texts) of an embed() call; moderation holds the ModerationCheck
\* a check() call returned.  sleeps, lastErr and outcomes are history: the
\* backoff delays of a generate() call, the exception of its last attempt, and
\* for each item of a batch whether its try block ended without an exception;
\* slots is the number of timestamps the call has recorded.
Idle ==
    [pc |-> "idle", op |-> None, attempt |-> 0, wakeAt |-> 0, schema |-> None,
     result |-> None, todo |-> 0, vectors |-> <<>>, sleeps |-> <<>>, lastErr |-> None,
     batch |-> 0, outcomes |-> <<>>, moderation |-> <<>>, content |-> None, info |-> NoInfo,
     slots |-> 0]

\* No script is run while the service is exercised on its own.
NoApp == [pc |-> None]

\* No schema is synthesized on its own while the service runs.
NoSynthesis == [schema |-> [required |-> <<>>, properties |-> <<>>], runs |-> <<>>]

\* RateLimiter.__init__ and the module-level _global_rate_limiter.
Init ==
    /\ clock = 0
    /\ minute_calls = <<>>
    /\ day_calls = <<>>
    /\ daily_quota_exhausted = FALSE
    /\ lock = None
    /\ waiters = <<>>
    /\ task = [p \in Tasks |-> Idle]
    /\ admitted = <<>>
    /\ calls = 0
    /\ observed = FALSE
    /\ remote_calls = 0
    /\ synth = NoSynthesis
    /\ app = NoApp

\* ---------------------------------------------------------------- limiter

\* A slip in the comparison: entries leave the window one tick early.
PruneEarly(call_times, now, window) ==
    SelectSeq(call_times, LAMBDA call_time : now - call_time < window - 1)

\* A slip: the comprehension keeps every entry.
PruneNothing(call_times, now, window) == call_times

\* [call_time for call_time in calls if now - call_time < window]
Prune(call_times, now, window) ==
    SelectSeq(call_times, LAMBDA call_time : now - call_time < window)

\* A slip in the sign: the wait is never positive.
WaitTimeNegated(now, pruned) == (now - pruned[1]) - Minute

\* wait_time = 60 - (now - self.minute_calls[0])
WaitTime(now, pruned) == Minute - (now - pruned[1])

\* async with self.lock, entered by a task that finds the lock taken or
\* finds other tasks queued for it.
LockBusy == lock # None \/ waiters # <<>>

\* A queued task is given the lock when it is free and the task is first in line.
Granted(p) == task[p].pc = "blocked" /\ lock = None /\ waiters # <<>> /\ Head(waiters) = p

\* A slip: the timestamp is recorded before the per-day test, so a call
\* refused for the day has used a slot.
WaitRecordsBeforeDayTest(p) ==
    LET now == clock
        pruned_minute == Prune(minute_calls, now, Minute)
        pruned_day == Prune(day_calls, now, Day)
    IN  IF ~Granted(p) /\ daily_quota_exhausted
        THEN [outcome |-> "raise_flag", minute |-> minute_calls, day |-> day_calls,
              flag |-> daily_quota_exhausted]
        ELSE IF ~Granted(p) /\ LockBusy
        THEN [outcome |-> "blocked", minute |-> minute_calls, day |-> day_calls,
              flag |-> daily_quota_exhausted]
        ELSE IF Len(pruned_minute) >= CallsPerMinute /\ WaitTime(now, pruned_minute) > 0
        THEN [outcome |-> "suspend", minute |-> pruned_minute, day |-> pruned_day,
              flag |-> daily_quota_exhausted]
        ELSE IF Len(pruned_day) >= CallsPerDay
        THEN [outcome |-> "raise_day", minute |-> Append(pruned_minute, now),
              day |-> Append(pruned_day, now), flag |-> TRUE]
        ELSE [outcome |-> "admitted", minute |-> Append(pruned_minute, now),
              day |-> Append(pruned_day, now), flag |-> daily_quota_exhausted]

\* A slip: an admitted call is recorded in the per-minute list alone.
WaitRecordsMinuteOnly(p) ==
    LET now == clock
        pruned_minute == Prune(minute_calls, now, Minute)
        pruned_day == Prune(day_calls, now, Day)
    IN  IF ~Granted(p) /\ daily_quota_exhausted
        THEN [outcome |-> "raise_flag", minute |-> minute_calls, day |-> day_calls,
              flag |-> daily_quota_exhausted]
        ELSE IF ~Granted(p) /\ LockBusy
        THEN [outcome |-> "blocked", minute |-> minute_calls, day |-> day_calls,
              flag |-> daily_quota_exhausted]
        ELSE IF Len(pruned_minute) >= CallsPerMinute /\ WaitTime(now, pruned_minute) > 0
        THEN [outcome |-> "suspend", minute |-> pruned_minute, day |-> pruned_day,
              flag |-> daily_quota_exhausted]
        ELSE IF Len(pruned_day) >= CallsPerDay
        THEN [outcome |-> "raise_day", minute |-> pruned_minute, day |-> pruned_day,
              flag |-> TRUE]
        ELSE [outcome |-> "admitted", minute |-> Append(pruned_minute, now),
              day |-> pruned_day, flag |-> daily_quota_exhausted]

\* One run of wait_if_needed() by task p up to its return, its raise or its
\* next suspension: the outcome and the limiter's fields after it.  A task
\* that was queued for the lock resumes after the flag test it already made.
wait_if_needed(p) ==
    LET now == clock
        pruned_minute == Prune(minute_calls, now, Minute)
        pruned_day == Prune(day_calls, now, Day)
    IN  IF ~Granted(p) /\ daily_quota_exhausted
        THEN [outcome |-> "raise_flag", minute |-> minute_calls, day |-> day_calls,
              flag |-> daily_quota_exhausted]
        ELSE IF ~Granted(p) /\ LockBusy
        THEN [outcome |-> "blocked", minute |-> minute_calls, day |-> day_calls,
              flag |-> daily_quota_exhausted]
        ELSE IF Len(pruned_minute) >= CallsPerMinute /\ WaitTime(now, pruned_minute) > 0
        THEN [outcome |-> "suspend", minute |-> pruned_minute, day |-> pruned_day,
              flag |-> daily_quota_exhausted]
        ELSE IF Len(pruned_day) >= CallsPerDay
        THEN [outcome |-> "raise_day", minute |-> pruned_minute, day |-> pruned_day,
              flag |-> TRUE]
        ELSE [outcome |-> "admitted", minute |-> Append(pruned_minute, now),
              day |-> Append(pruned_day, now), flag |-> daily_quota_exhausted]

\* A slip: the limiter's exception is swallowed and the vendor is called anyway.
RemoteCalledAlways(w) == w.outcome \notin {"suspend", "blocked"}

\* The attempt goes on to the vendor call: wait_if_needed() returned.
RemoteCalled(w) == w.outcome = "admitted"

\* The exception the attempt ends with, None if it ends with none: w is the
\* limiter's answer and r what the vendor call does if it is reached.
AttemptError(w, r, s) ==
    CASE w.outcome = "raise_flag" -> "limiter_flag"
      [] w.outcome = "raise_day" -> "limiter_day"
      [] w.outcome = "admitted" /\ r \in RemoteErrors -> r
      [] w.outcome = "admitted" /\ r \in Responses -> GenerateOnceOf[r][s].error
      [] OTHER -> None

\* The task t inside wait_if_needed() after it suspends there.
Suspended(t, w) ==
    [t EXCEPT
        !.pc = IF w.outcome = "suspend" THEN "sleeping" ELSE "blocked",
        !.wakeAt = IF w.outcome = "suspend" THEN clock + WaitTime(clock, w.minute) ELSE @]

\* --------------------------------------------------------------- generate

\* The body of the retry loop of _generate_with_retry after wait_if_needed(),
\* for the task t of a generator of schema s: r is the model's answer and e
\* the exception of the attempt, None when _generate_once returned.
GenerateNext(t, e, s, r) ==
    IF e = None
    THEN [t EXCEPT
             !.pc = "done", !.result = "success", !.lastErr = None,
             !.schema = IF r \in Repaired THEN s ELSE @,
             !.content = GenerateOnceOf[r][s].content, !.info = GenerateOnceOf[r][s].info]
    ELSE LET clause == ExceptClause(e, t.attempt)
         IN  IF clause.next = "backoff"
             THEN [t EXCEPT
                      !.pc = "backoff", !.sleeps = Append(@, clause.delay), !.lastErr = e]
             ELSE [t EXCEPT
                      !.pc = "done", !.lastErr = e, !.schema = s, !.result = FallbackOf[s],
                      !.content = FallbackContent[s],
                      !.info = IF FallbackOf[s] = "fallback" THEN FallbackInfo ELSE NoInfo]

\* ------------------------------------------------------------------ embed

\* result['embedding'] for the i-th text of the batch.
Embedding(i) == [values |-> "embedding", text |-> i, length |-> Dimensions]

\* [0.1] * 768
FillerVector == [values |-> "0.1", text |-> 0, length |-> Dimensions]

\* A slip: a failed item is logged and skipped, no vector is appended for it.
EmbedNextSkipFailed(t, e) ==
    [t EXCEPT
        !.vectors = IF e = None THEN Append(@, Embedding(Len(t.outcomes) + 1)) ELSE @,
        !.outcomes = Append(@, IF e = None THEN "ok" ELSE "failed"),
        !.todo = @ - 1,
        !.pc = IF t.todo = 1 THEN "done" ELSE "attempt",
        !.result = IF t.todo = 1 THEN "returned" ELSE @]

\* The body of the batch loop of embed() after wait_if_needed(): the vector
\* appended for the item, then the next item or the return.
EmbedNext(t, e) ==
    [t EXCEPT
        !.vectors = Append(@, IF e = None THEN Embedding(Len(t.vectors) + 1) ELSE FillerVector),
        !.outcomes = Append(@, IF e = None THEN "ok" ELSE "failed"),
        !.todo = @ - 1,
        !.pc = IF t.todo = 1 THEN "done" ELSE "attempt",
        !.result = IF t.todo = 1 THEN "returned" ELSE @]

\* ---------------------------------------------------------------- actions

\* Task p, standing as t, runs from a call of wait_if_needed() to its next
\* suspension or to the end of the call.  w is the limiter's answer, r what
\* the vendor call does if it is reached, s the generator's schema.
Step(p, t, w, r, s) ==
    LET e == AttemptError(w, r, s)
        inWait == w.outcome \in {"suspend", "blocked"}
        mark == ~inWait /\ e # None /\ t.op = "generate" /\ ExceptClause(e, t.attempt).mark
        after == IF inWait THEN Suspended(t, w)
                 ELSE IF t.op = "generate" THEN GenerateNext(t, e, s, r)
                 ELSE EmbedNext(t, e)
    IN  /\ task' = [task EXCEPT
                       ![p] = [after EXCEPT
                                  !.slots = IF w.outcome = "admitted" THEN @ + 1 ELSE @]]
        /\ minute_calls' = w.minute
        /\ day_calls' = w.day
        /\ daily_quota_exhausted' = (w.flag \/ mark)
        /\ lock' = IF w.outcome = "suspend" THEN p
                   ELSE IF w.outcome = "raise_flag" /\ lock = p THEN None
                   ELSE lock
        /\ waiters' = IF w.outcome = "blocked" THEN Append(waiters, p)
                      ELSE IF Granted(p) THEN Tail(waiters)
                      ELSE waiters
        /\ admitted' = IF w.outcome = "admitted" THEN Append(admitted, clock) ELSE admitted
        /\ observed' = (observed \/ e \in {"limiter_flag", "limiter_day", "remote_day"})
        /\ remote_calls' = IF RemoteCalled(w) THEN remote_calls + 1 ELSE remote_calls
        /\ UNCHANGED <<clock, synth, app>>

\* The inputs of one attempt of generate(): what the vendor call does, and
\* the generator's schema, drawn in the attempt that reads its fields (the
\* fallback does, and the validation of the sample).  An attempt that read the
\* schema and failed leaves the same state as one that failed on a rejected
\* object, so every state and step reached with two draws in one call is also
\* reached with one schema throughout.
GenerateInputs(t, w) ==
    {in \in [r : Responses \cup RemoteErrors, s : Schemas] :
        LET e == AttemptError(w, in.r, in.s)
            falls == e # None /\ ExceptClause(e, t.attempt).next = "fallback"
            reads == falls \/ (w.outcome = "admitted" /\ in.r \in Repaired)
        IN  /\ w.outcome # "admitted" => in.r = "json"
            /\ ~reads => in.s = "SimpleResponse"}

\* What genai.embed_content() does.
EmbedInputs(w) ==
    {r \in {"ok", "remote_day", "remote_other"} : w.outcome # "admitted" => r = "ok"}

\* await generator.generate(prompt, hints), run to its first suspension.
CallGenerate(p) ==
    /\ task[p].pc = "idle"
    /\ calls < MaxCalls
    /\ calls' = calls + 1
    /\ LET t == [Idle EXCEPT !.pc = "attempt", !.op = "generate"]
           w == wait_if_needed(p)
       IN  \E in \in GenerateInputs(t, w) : Step(p, t, w, in.r, in.s)

\* await embedder.embed(texts, hints) on a batch of k texts, run to the end of
\* its first item.
CallEmbed(p) ==
    /\ task[p].pc = "idle"
    /\ calls < MaxCalls
    /\ calls' = calls + 1
    /\ \E k \in 0..MaxBatch :
          LET t == [Idle EXCEPT !.pc = "attempt", !.op = "embed", !.todo = k, !.batch = k]
              w == wait_if_needed(p)
          IN  IF k = 0
              THEN /\ task' = [task EXCEPT ![p] = [t EXCEPT !.pc = "done", !.result = "returned"]]
                   /\ UNCHANGED <<clock, minute_calls, day_calls, daily_quota_exhausted, lock,
                                  waiters, admitted, observed, remote_calls, synth, app>>
              ELSE \E r \in EmbedInputs(w) : Step(p, t, w, r, None)

\* The texts handed to the moderation service.
Contents == {"This is a normal, safe message.", "an abusive message"}

\* A slip: the content is looked at, and some of it is flagged.
CheckFlagsAbuse(content) ==
    [flagged |-> content = "an abusive message",
     tags |-> IF content = "an abusive message" THEN <<"abuse">> ELSE <<>>]

\* ModerationCheck(flagged=False, tags=[])
check(content) == [flagged |-> FALSE, tags |-> <<>>]

\* await moderation.check(content): it returns without suspending, and reads
\* neither the limiter nor the remote API.
CallCheck(p) ==
    /\ task[p].pc = "idle"
    /\ calls < MaxCalls
    /\ calls' = calls + 1
    /\ \E content \in Contents :
          task' = [task EXCEPT
                      ![p] = [Idle EXCEPT
                                 !.pc = "done", !.op = "check", !.result = "returned",
                                 !.moderation = <<check(content)>>]]
    /\ UNCHANGED <<clock, minute_calls, day_calls, daily_quota_exhausted, lock, waiters,
                   admitted, observed, remote_calls, synth, app>>

\* A later attempt of the retry loop, or one resumed when the lock is given:
\* wait_if_needed(), then _generate_once().
GenerateAttempt(p) ==
    /\ task[p].op = "generate"
    /\ task[p].pc = "attempt" \/ Granted(p)
    /\ LET w == wait_if_needed(p)
       IN  \E in \in GenerateInputs(task[p], w) : Step(p, task[p], w, in.r, in.s)
    /\ UNCHANGED calls

\* A later item of the batch, or one resumed when the lock is given:
\* wait_if_needed(), then genai.embed_content().
EmbedItem(p) ==
    /\ task[p].op = "embed"
    /\ task[p].pc = "attempt" \/ Granted(p)
    /\ LET w == wait_if_needed(p)
       IN  \E r \in EmbedInputs(w) : Step(p, task[p], w, r, None)
    /\ UNCHANGED calls

\* asyncio.sleep(wait_time) is over: return await self.wait_if_needed(),
\* called with the lock still held by the calling frame.
LimiterSleepOver(p) ==
    /\ task[p].pc = "sleeping"
    /\ clock >= task[p].wakeAt
    /\ LET w == wait_if_needed(p)
       IN  IF task[p].op = "generate"
           THEN \E in \in GenerateInputs(task[p], w) : Step(p, task[p], w, in.r, in.s)
           ELSE \E r \in EmbedInputs(w) : Step(p, task[p], w, r, None)
    /\ UNCHANGED calls

\* asyncio.sleep(retry_delay) is over: the loop continues with the next attempt.
BackoffOver(p) ==
    /\ task[p].pc = "backoff"
    /\ task' = [task EXCEPT ![p].pc = "attempt", ![p].attempt = @ + 1, ![p].lastErr = None]
    /\ UNCHANGED <<clock, minute_calls, day_calls, daily_quota_exhausted, lock, waiters,
                   admitted, calls, observed, remote_calls, synth, app>>

\* The caller has its result (or its exception); the task is free again.
Return(p) ==
    /\ task[p].pc = "done"
    /\ task' = [task EXCEPT ![p] = Idle]
    /\ UNCHANGED <<clock, minute_calls, day_calls, daily_quota_exhausted, lock, waiters,
                   admitted, calls, observed, remote_calls, synth, app>>

\* Time passes.
Tick ==
    /\ clock < MaxClock
    /\ clock' = clock + 1
    /\ UNCHANGED <<minute_calls, day_calls, daily_quota_exhausted, lock, waiters, task,
                   admitted, calls, observed, remote_calls, synth, app>>

\* What the event loop does for task p.
Run(p) ==
    \/ CallGenerate(p)
    \/ CallEmbed(p)
    \/ CallCheck(p)
    \/ GenerateAttempt(p)
    \/ EmbedItem(p)
    \/ LimiterSleepOver(p)
    \/ BackoffOver(p)
    \/ Return(p)

Next == Tick \/ \E p \in Tasks : Run(p)

Spec == Init /\ [][Next]_vars

\* The event loop runs every task that is ready, and time goes on.
FairSpec == Spec /\ WF_vars(Tick) /\ \A p \in Tasks : WF_vars(Run(p))

\* ------------------------------------------------ the remote API unreachable

\* Every call of generate_content() and of embed_content() raises.
RemoteDown ==
    \A p \in Tasks :
        /\ task'[p].result # "success"
        /\ \A i \in DOMAIN task'[p].outcomes : task'[p].outcomes[i] # "ok"

\* What the event loop does for task p while the API is unreachable.
RunDown(p) == Run(p) /\ RemoteDown

UnreachableNext == Tick \/ \E p \in Tasks : RunDown(p)

\* The service with the API unreachable, every ready task run and time going on.
UnreachableSpec ==
    Init /\ [][UnreachableNext]_vars /\ WF_vars(Tick) /\ \A p \in Tasks : WF_vars(RunDown(p))

\* ------------------------------------------------------ the limiter's mutex
\* The statements of the limiter that touch one of its three fields, in the
\* order they run, with the entry and the exit of `async with self.lock`.

Touch(kind, field) == [kind |-> kind, field |-> field]

\* wait_if_needed() up to the given outcome.
Trace(outcome) ==
    LET flagTest == <<Touch("read", "daily_quota_exhausted")>>
        pruned == <<Touch("acquire", "lock"),
                    Touch("read", "minute_calls"), Touch("write", "minute_calls"),
                    Touch("read", "day_calls"), Touch("write", "day_calls"),
                    Touch("read", "minute_calls")>>
    IN  CASE outcome \in {"raise_flag", "blocked"} -> flagTest
          [] outcome = "suspend" -> flagTest \o pruned
          [] outcome = "raise_day" ->
                flagTest \o pruned \o
                <<Touch("read", "day_calls"), Touch("write", "daily_quota_exhausted"),
                  Touch("release", "lock")>>
          [] OTHER ->
                flagTest \o pruned \o
                <<Touch("read", "day_calls"), Touch("write", "minute_calls"),
                  Touch("write", "day_calls"), Touch("release", "lock")>>

\* mark_quota_exhausted(), called from the retry loop.
MarkTrace == <<Touch("write", "daily_quota_exhausted")>>

\* The i-th statement of the trace runs inside the `async with` block.
HeldAt(trace, i) ==
    \E j \in 1..(i - 1) :
        /\ trace[j].kind = "acquire"
        /\ \A k \in (j + 1)..(i - 1) : trace[k].kind # "release"

\* ------------------------------------------------- fallback synthesis alone
\* The first try block of _create_fallback_response as a function of the
\* schema: model_json_schema() is drawn from the schemas below and the
\* instance is built twice.

\* The names a schema's fields can bear.
FieldNameList == SubSeq(<<"f1", "f2", "f3", "f4", "f5">>, 1, MaxFields)

FieldNames == Range(FieldNameList)

\* The six kinds _get_field_default_value tells apart by "type".
PrimitiveInfos ==
    {[type |-> "string"], [type |-> "integer"], [type |-> "number"], [type |-> "boolean"],
     [type |-> "array"], [type |-> "object"]}

\* What model_json_schema() writes for one field: a primitive; a Literal of
\* strings (type and enum); a Literal of mixed values (enum alone); a field
\* with a default; Optional[int] with and without a default of None; a union
\* of null alone; a reference to a nested model; an empty enum; nothing at all.
FieldInfos ==
    PrimitiveInfos \cup
    {[type |-> "string", enum |-> <<"'low'", "'high'">>],
     [enum |-> <<"1", "'a'">>],
     [type |-> "integer", default |-> "5"],
     [type |-> "string", default |-> "'n/a'"],
     [anyOf |-> <<[type |-> "integer"], [type |-> "null"]>>, default |-> "None"],
     [anyOf |-> <<[type |-> "null"], [type |-> "number"]>>],
     [anyOf |-> <<[type |-> "null"]>>],
     [ref |-> "#/$defs/Address"],
     [enum |-> <<>>],
     EmptyDict}

\* The required names of a schema, in the order of the field names.
RequiredLists ==
    {[i \in DOMAIN picked |-> FieldNameList[picked[i]]] :
        picked \in {seq \in UNION {[1..n -> 1..MaxFields] : n \in 0..MaxFields} :
                       \A i, j \in DOMAIN seq : i < j => seq[i] < seq[j]}}

\* The schemas synthesis is run on: any required names (a properties entry may
\* be missing for one) and any properties map over the field names.
SchemaInputs ==
    {[required |-> req, properties |-> props] :
        req \in RequiredLists,
        props \in UNION {[D -> FieldInfos] : D \in SUBSET FieldNames}}

SynthInit ==
    /\ clock = 0
    /\ minute_calls = <<>>
    /\ day_calls = <<>>
    /\ daily_quota_exhausted = FALSE
    /\ lock = None
    /\ waiters = <<>>
    /\ task = [p \in Tasks |-> Idle]
    /\ admitted = <<>>
    /\ calls = 0
    /\ observed = FALSE
    /\ remote_calls = 0
    /\ \E schema \in SchemaInputs : synth = [schema |-> schema, runs |-> <<>>]
    /\ app = NoApp

\* One run of the first try block up to model_validate().
Synthesize ==
    /\ Len(synth.runs) < 2
    /\ synth' = [synth EXCEPT !.runs = Append(@, fallback_instance(synth.schema))]
    /\ UNCHANGED <<clock, minute_calls, day_calls, daily_quota_exhausted, lock, waiters, task,
                   admitted, calls, observed, remote_calls, app>>

SynthNext == Synthesize

SynthSpec == SynthInit /\ [][SynthNext]_vars

\* ------------------------------------------------------------ the scripts
\* src/main.py, src/Project-Manager/main.py and
\* src/Project-Manager/main_enhanced.py: main() from its test of the API key
\* to the end of the server, the tools the agent calls and the scheduling
\* journey the agent walks.

Healthcare == "src/main.py"

ProjectManager == "src/Project-Manager/main.py"

Enhanced == "src/Project-Manager/main_enhanced.py"

Scripts == {Healthcare, ProjectManager, Enhanced}

\* os.environ after load_dotenv(): each of the two variables is unset, set to
\* the empty string or set to a value.
Environs ==
    {environ \in UNION {[names -> {"", "AIza-key", "gemini-1.5-pro"}] :
                           names \in SUBSET {"GEMINI_API_KEY", "GEMINI_MODEL"}} :
        /\ "GEMINI_API_KEY" \in DOMAIN environ => environ["GEMINI_API_KEY"] # "gemini-1.5-pro"
        /\ "GEMINI_MODEL" \in DOMAIN environ => environ["GEMINI_MODEL"] # "AIza-key"}

\* not value
Not(value) == value = None \/ value = ""

\* What main() prints when it finds no API key.
KeyErrorLines(script) ==
    IF script = Enhanced
    THEN <<"Error: GEMINI_API_KEY environment variable is required",
           "Please create a .env file with your GEMINI_API_KEY">>
    ELSE <<"Error: GEMINI_API_KEY environment variable is required">>

\* A slip: the message is printed and main() goes on.
MainGoesOn(a) ==
    IF Not(Get(a.environ, "GEMINI_API_KEY", None))
    THEN [a EXCEPT !.printed = KeyErrorLines(a.script), !.pc = "enter"]
    ELSE [a EXCEPT !.pc = "enter"]

\* if not os.environ.get("GEMINI_API_KEY"): print(...); return
main(a) ==
    IF Not(Get(a.environ, "GEMINI_API_KEY", None))
    THEN [a EXCEPT !.printed = KeyErrorLines(a.script), !.pc = "returned"]
    ELSE [a EXCEPT !.pc = "enter"]

\* The model name of the service load_gemini_nlp_service() builds, which the
\* service hands to its generator and the generator reports as its id.
load_gemini_nlp_service(environ) == Get(environ, "GEMINI_MODEL", "gemini-2.0-flash")

\* A return statement of a tool: where it stands (at the end of the body, in
\* a branch of it, in the except clause) and the control it passes.
ReturnAt(path, control) == [path |-> path, control |-> control]

\* A function decorated with p.tool and its return statements.
Tool(name, returns) == [name |-> name, raises |-> None, returns |-> returns]

\* A tool whose body raises before any of its return statements.
Raising(name, exception, returns) == [name |-> name, raises |-> exception, returns |-> returns]

HealthcareTools ==
    {Tool("get_upcoming_slots", <<ReturnAt("end", EmptyDict)>>),
     Tool("get_later_slots", <<ReturnAt("end", EmptyDict)>>),
     Tool("schedule_appointment", <<ReturnAt("end", EmptyDict)>>),
     Raising("get_lab_results", "NameError",
             <<ReturnAt("branch", EmptyDict), ReturnAt("end", EmptyDict)>>)}

ProjectManagerTools ==
    {Tool("github_list_open_issues", <<ReturnAt("end", [lifespan |-> "session"])>>),
     Tool("github_get_issue_details", <<ReturnAt("end", [lifespan |-> "session"])>>),
     Tool("github_create_issue", <<ReturnAt("end", [lifespan |-> "session"])>>),
     Tool("github_close_issue", <<ReturnAt("end", [lifespan |-> "session"])>>),
     Tool("github_reopen_issue", <<ReturnAt("end", [lifespan |-> "session"])>>),
     Tool("github_list_pull_requests", <<ReturnAt("end", [lifespan |-> "session"])>>),
     Tool("github_get_pull_request_details", <<ReturnAt("end", [lifespan |-> "session"])>>),
     Tool("github_create_pull_request", <<ReturnAt("end", [lifespan |-> "session"])>>),
     Tool("github_merge_pull_request", <<ReturnAt("end", [lifespan |-> "session"])>>),
     Tool("github_close_pull_request", <<ReturnAt("end", [lifespan |-> "session"])>>),
     Tool("sandbox_run_tests", <<ReturnAt("end", [lifespan |-> "response"])>>),
     Tool("vector_retriever_search", <<ReturnAt("end", [lifespan |-> "response"])>>)}

EnhancedTools ==
    {Tool("github_list_open_issues",
          <<ReturnAt("end", [lifespan |-> "session"]),
            ReturnAt("except", [lifespan |-> "response"])>>),
     Tool("github_get_issue_details",
          <<ReturnAt("branch", [lifespan |-> "response"]),
            ReturnAt("end", [lifespan |-> "session"]),
            ReturnAt("except", [lifespan |-> "response"])>>),
     Tool("github_create_issue",
          <<ReturnAt("end", [lifespan |-> "session"]),
            ReturnAt("except", [lifespan |-> "response"])>>),
     Tool("github_close_issue",
          <<ReturnAt("end", [lifespan |-> "session"]),
            ReturnAt("except", [lifespan |-> "response"])>>),
     Tool("github_reopen_issue",
          <<ReturnAt("end", [lifespan |-> "session"]),
            ReturnAt("except", [lifespan |-> "response"])>>),
     Tool("github_list_pull_requests",
          <<ReturnAt("end", [lifespan |-> "session"]),
            ReturnAt("except", [lifespan |-> "response"])>>),
     Tool("github_get_pull_request_details",
          <<ReturnAt("branch", [lifespan |-> "response"]),
            ReturnAt("end", [lifespan |-> "session"]),
            ReturnAt("except", [lifespan |-> "response"])>>),
     Tool("github_create_pull_request",
          <<ReturnAt("end", [lifespan |-> "session"]),
            ReturnAt("except", [lifespan |-> "response"])>>),
     Tool("github_merge_pull_request",
          <<ReturnAt("end", [lifespan |-> "session"]),
            ReturnAt("except", [lifespan |-> "response"])>>),
     Tool("github_close_pull_request",
          <<ReturnAt("end", [lifespan |-> "session"]),
            ReturnAt("except", [lifespan |-> "response"])>>),
     Tool("sandbox_run_tests",
          <<ReturnAt("end", [lifespan |-> "response"]),
            ReturnAt("except", [lifespan |-> "response"])>>),
     Tool("vector_retriever_search",
          <<ReturnAt("end", [lifespan |-> "response"]),
            ReturnAt("except", [lifespan |-> "response"])>>),
     Tool("code_review_analyzer",
          <<ReturnAt("end", [lifespan |-> "response"]),
            ReturnAt("except", [lifespan |-> "response"])>>),
     Tool("deployment_status_checker",
          <<ReturnAt("branch", [lifespan |-> "response"]),
            ReturnAt("end", [lifespan |-> "response"]),
            ReturnAt("except", [lifespan |-> "response"])>>)}
ToolsOf(script) ==
    CASE script = Healthcare -> HealthcareTools
      [] script = ProjectManager -> ProjectManagerTools
      [] OTHER -> EnhancedTools

\* The tool of the script with the given name.
ToolNamed(script, name) == CHOOSE tool \in ToolsOf(script) : tool.name = name

\* What a call of the tool gives when it ends at its i-th return statement:
\* the ToolResult, or the exception the body raised before it.
Invoke(tool, i) ==
    IF tool.raises # None
    THEN [tool |-> tool.name, raised |-> tool.raises, control |-> EmptyDict]
    ELSE [tool |-> tool.name, raised |-> None, control |-> tool.returns[i].control]

\* One call of transition_to(): the variable the transition is bound to, the
\* variable whose target it leaves ("initial" for journey.initial_state), the
\* keyword that names the target, its value and the condition.
Transition(var, source, keyword, value, condition) ==
    [var |-> var, source |-> source, keyword |-> keyword, value |-> value,
     condition |-> condition]

\* A slip: the later slots lead back to the tool state itself.
SchedulingBackToTool ==
    <<Transition("t0", "initial", "chat_state", "Determine the reason for the visit", None),
      Transition("t1", "t0", "tool_state", "get_upcoming_slots", None),
      Transition("t2", "t1", "chat_state",
                 "List available times and ask which ones works for them", None),
      Transition("t3", "t2", "chat_state",
                 "Confirm the details with the patient before scheduling",
                 "The patient picks a time"),
      Transition("t4", "t3", "tool_state", "schedule_appointment",
                 "The patient confirms the details"),
      Transition("t5", "t4", "chat_state", "Confirm the appointment has been scheduled", None),
      Transition("end_1", "t5", "state", "END_JOURNEY", None),
      Transition("t6", "t2", "tool_state", "get_later_slots",
                 "None of those times work for the patient"),
      Transition("t7", "t6", "chat_state", "List later times and ask if any of them works",
                 None),
      Transition("back", "t7", "state", "t4", "The patient picks a time"),
      Transition("t8", "t7", "chat_state",
                 "Ask the patient to call the office to schedule an appointment",
                 "None of those times work for the patient either"),
      Transition("end_2", "t8", "state", "END_JOURNEY", None)>>

\* The calls of transition_to() in create_scheduling_journey(), in order.
create_scheduling_journey ==
    <<Transition("t0", "initial", "chat_state", "Determine the reason for the visit", None),
      Transition("t1", "t0", "tool_state", "get_upcoming_slots", None),
      Transition("t2", "t1", "chat_state",
                 "List available times and ask which ones works for them", None),
      Transition("t3", "t2", "chat_state",
                 "Confirm the details with the patient before scheduling",
                 "The patient picks a time"),
      Transition("t4", "t3", "tool_state", "schedule_appointment",
                 "The patient confirms the details"),
      Transition("t5", "t4", "chat_state", "Confirm the appointment has been scheduled", None),
      Transition("end_1", "t5", "state", "END_JOURNEY", None),
      Transition("t6", "t2", "tool_state", "get_later_slots",
                 "None of those times work for the patient"),
      Transition("t7", "t6", "chat_state", "List later times and ask if any of them works",
                 None),
      Transition("back", "t7", "state", "t3", "The patient picks a time"),
      Transition("t8", "t7", "chat_state",
                 "Ask the patient to call the office to schedule an appointment",
                 "None of those times work for the patient either"),
      Transition("end_2", "t8", "state", "END_JOURNEY", None)>>

\* The state a transition leads to: the one given with state=, or a new one,
\* named after the variable its transition is bound to.
TargetOf(call) == IF call.keyword = "state" THEN call.value ELSE call.var

\* transition_to() on the journey built so far.
transition_to(a, call) ==
    [a EXCEPT
        !.states = IF call.keyword = "state" THEN @
                   ELSE @ \cup {[id |-> call.var, kind |-> call.keyword, value |-> call.value]},
        !.edges = @ \cup {[source |-> call.source, target |-> TargetOf(call),
                           condition |-> call.condition]},
        !.built = @ + 1]

\* What the rest of main() creates once the agent exists: the tools it names,
\* the number of guidelines and the journeys.
Configured(script) ==
    CASE script = Healthcare ->
            [tools |-> {"get_upcoming_slots", "get_later_slots", "schedule_appointment",
                        "get_lab_results"},
             guidelines |-> 2,
             journeys |-> {"Schedule an Appointment", "Get Lab Results"}]
      [] script = ProjectManager ->
            [tools |-> {tool.name : tool \in ProjectManagerTools} \ {"github_close_issue"},
             guidelines |-> 7,
             journeys |-> {}]
      [] OTHER ->
            [tools |-> {tool.name : tool \in EnhancedTools},
             guidelines |-> 8,
             journeys |-> {"create_issue_management_journey",
                           "create_pull_request_management_journey",
                           "create_ci_cd_troubleshooting_journey",
                           "create_code_review_journey"}]

\* A script about to run main(): nothing is printed, constructed or created,
\* no journey is built, no tool was called.
AtMain(script, environ) ==
    [script |-> script, environ |-> environ, pc |-> "main", printed |-> <<>>,
     server |-> FALSE, model_name |-> None, agents |-> 0, tools |-> {}, guidelines |-> 0,
     journeys |-> {}, built |-> 0, states |-> {}, edges |-> {}, at |-> None, path |-> <<>>,
     result |-> [tool |-> None, raised |-> None, control |-> EmptyDict]]

\* asyncio.run(main()) in one of the scripts, under some environment.
AppInit ==
    /\ clock = 0
    /\ minute_calls = <<>>
    /\ day_calls = <<>>
    /\ daily_quota_exhausted = FALSE
    /\ lock = None
    /\ waiters = <<>>
    /\ task = [p \in Tasks |-> Idle]
    /\ admitted = <<>>
    /\ calls = 0
    /\ observed = FALSE
    /\ remote_calls = 0
    /\ synth = NoSynthesis
    /\ \E script \in Scripts, environ \in Environs : app = AtMain(script, environ)

\* The scripts are run without a call of the service being made.
ServiceIdle ==
    UNCHANGED <<clock, minute_calls, day_calls, daily_quota_exhausted, lock, waiters, task,
                admitted, calls, observed, remote_calls, synth>>

\* The test of the API key at the top of main().
MainCheck ==
    /\ app.pc = "main"
    /\ app' = main(app)
    /\ ServiceIdle

\* async with p.Server(nlp_service=load_gemini_nlp_service, ...) as server
ServerEnter ==
    /\ app.pc = "enter"
    /\ app' = [app EXCEPT
                  !.server = TRUE, !.model_name = load_gemini_nlp_service(app.environ),
                  !.pc = "server"]
    /\ ServiceIdle

\* await server.create_agent(...)
CreateAgent ==
    /\ app.pc = "server"
    /\ app' = [app EXCEPT !.agents = @ + 1,
                          !.pc = IF app.script = Healthcare THEN "journey" ELSE "agent"]
    /\ ServiceIdle

\* The next call of transition_to() in create_scheduling_journey().
TransitionTo ==
    /\ app.pc = "journey"
    /\ app.built < Len(create_scheduling_journey)
    /\ app' = transition_to(app, create_scheduling_journey[app.built + 1])
    /\ ServiceIdle

\* The rest of main(): tools, guidelines and journeys are created; the agent
\* then serves, at the initial state of the scheduling journey if it has one.
Configure ==
    /\ \/ app.pc = "agent"
       \/ app.pc = "journey" /\ app.built = Len(create_scheduling_journey)
    /\ app' = [app EXCEPT
                  !.tools = Configured(app.script).tools,
                  !.guidelines = Configured(app.script).guidelines,
                  !.journeys = Configured(app.script).journeys,
                  !.at = IF app.script = Healthcare THEN "initial" ELSE @,
                  !.pc = "ready"]
    /\ ServiceIdle

\* The agent calls one of the script's tools, which ends at one of its
\* return statements.
ToolCall ==
    /\ app.pc = "ready"
    /\ \E tool \in ToolsOf(app.script) : \E i \in DOMAIN tool.returns :
          app' = [app EXCEPT !.result = Invoke(tool, i)]
    /\ ServiceIdle

\* The agent follows one transition of the scheduling journey; entering a
\* tool state it calls the tool.
JourneyAdvance ==
    /\ app.pc = "ready"
    /\ \E edge \in app.edges :
          /\ edge.source = app.at
          /\ app' = [app EXCEPT
                        !.at = edge.target,
                        !.path = Append(@, edge),
                        !.result =
                            IF \E st \in app.states :
                                   st.id = edge.target /\ st.kind = "tool_state"
                            THEN LET st == CHOOSE st \in app.states : st.id = edge.target
                                 IN  Invoke(ToolNamed(app.script, st.value), 1)
                            ELSE @]
    /\ ServiceIdle

\* The async with block is left and main() returns.
ServerExit ==
    /\ app.pc = "ready"
    /\ app' = [app EXCEPT !.pc = "returned"]
    /\ ServiceIdle

AppNext ==
    \/ MainCheck
    \/ ServerEnter
    \/ CreateAgent
    \/ TransitionTo
    \/ Configure
    \/ ToolCall
    \/ JourneyAdvance
    \/ ServerExit

AppSpec == AppInit /\ [][AppNext]_vars

\* ----------------------------------------------------------------- claims

\* Task p runs in this step.
Acts(p) == task'[p] # task[p]

\* Task p makes a fresh call of wait_if_needed() in this step: the first
\* attempt of a call (an empty batch makes none, nor does a moderation check)
\* or a later attempt or item.
Enters(p) ==
    /\ Acts(p)
    /\ task'[p].op # "check"
    /\ \/ task[p].pc = "attempt"
       \/ task[p].pc = "idle" /\ ~(task'[p].pc = "done" /\ task'[p].vectors = <<>>
                                    /\ task'[p].op = "embed")

\* The timestamps recorded in the window of the given length that starts at a.
AdmittedIn(a, length) == SelectSeq(admitted, LAMBDA t : a <= t /\ t < a + length)

\* The errors that tell of an exhausted daily quota.
DailyErrors == {"remote_day", "limiter_day", "limiter_flag"}

\* C1: under every interleaving of generate() and embed() callers, no window of
\* one minute holds more than calls_per_minute recorded timestamps and no window
\* of one day more than calls_per_day (a window holds its start, not its end).
C1_RateNeverExceeded ==
    \A a \in 0..MaxClock :
        /\ Len(AdmittedIn(a, Minute)) <= CallsPerMinute
        /\ Len(AdmittedIn(a, Day)) <= CallsPerDay

\* Both windows are full and a caller is held back in the limiter.
C1_Witness ==
    /\ Len(minute_calls) = CallsPerMinute
    /\ Len(day_calls) = CallsPerDay
    /\ Len(admitted) = CallsPerDay
    /\ \E p \in Tasks : task[p].pc = "sleeping" /\ task[p].op = "embed"

\* C2: from the empty limiter, with the clock still at its first value and the
\* flag not marked, a call of wait_if_needed() made while fewer than
\* calls_per_minute timestamps are recorded returns without suspending and
\* records one; a call made once calls_per_minute are recorded suspends and
\* records none; and a suspended caller records nothing before the oldest
\* timestamp of the window is one minute old.
C2_FirstCallsThenSuspend ==
    [][\A p \in Tasks :
          /\ (Enters(p) /\ clock = 0 /\ ~daily_quota_exhausted) =>
                IF Len(admitted) < CallsPerMinute
                THEN /\ admitted' = Append(admitted, clock)
                     /\ task'[p].pc \notin {"sleeping", "blocked"}
                ELSE /\ admitted' = admitted
                     /\ task'[p].pc \in {"sleeping", "blocked"}
          /\ (Acts(p) /\ task[p].pc = "sleeping" /\ clock < task[p].wakeAt) =>
                admitted' = admitted]_vars

\* The clock has not moved, calls_per_minute calls were let through and the
\* next caller sleeps in the limiter.
C2_Witness ==
    /\ clock = 0
    /\ ~daily_quota_exhausted
    /\ Len(admitted) = CallsPerMinute
    /\ \E p \in Tasks : task[p].pc = "sleeping" /\ task[p].wakeAt = Minute

\* C3: a caller that slept for a per-minute slot, once its sleep is over,
\* eventually leaves wait_if_needed() (it records its timestamp and returns, or
\* it raises): it does not stay in the limiter forever.
C3_SleeperCompletes ==
    \A p \in Tasks :
        (task[p].pc = "sleeping" /\ clock >= task[p].wakeAt)
            ~> (task[p].pc \notin {"sleeping", "blocked"})

\* calls_per_day unexpired timestamps are in the per-day window.
DayWindowFull == Len(Prune(day_calls, clock, Day)) >= CallsPerDay

\* C4: a call of wait_if_needed() made while the per-day window is full (and
\* the lock is free), whatever the per-minute window holds, sets the flag and
\* raises at once, without suspending and without recording a timestamp; and
\* the flag, once set, stays set.
C4_DayFullRaisesAtOnce ==
    [][/\ \A p \in Tasks :
             (Enters(p) /\ DayWindowFull /\ ~LockBusy) =>
                 /\ daily_quota_exhausted'
                 /\ task'[p].pc \notin {"sleeping", "blocked"}
                 /\ admitted' = admitted
       /\ daily_quota_exhausted => daily_quota_exhausted']_vars

\* C5: once a per-day-exhausted error has been observed, a call of generate()
\* or embed() that begins after it does not reach the remote API with its
\* first attempt or item (the API is called exactly when the limiter records a
\* timestamp).
C5_NoRemoteAfterObserved ==
    [][\A p \in Tasks :
          (Acts(p) /\ task[p].pc = "idle" /\ observed) => admitted' = admitted]_vars

\* C6: a call of generate() that begins with the flag set is over at once: it
\* neither waits in the limiter nor sleeps between attempts.
C6_FailFastOnceMarked ==
    [][\A p \in Tasks :
          (task[p].pc = "idle" /\ daily_quota_exhausted /\ task'[p].op = "generate") =>
              task'[p].pc = "done"]_vars

\* C7: no backoff sleep follows an attempt that failed with a daily-quota error,
\* be it the remote API's or the one of the limiter's own per-day check.
C7_DailyErrorNotRetried ==
    \A p \in Tasks :
        task[p].pc = "backoff" => task[p].lastErr \notin {"remote_day", "limiter_day"}

\* C8: in generate(), the k-th backoff sleep of a call (k = 0, 1, ...) lasts
\* 1 * 2^k seconds, one sleep lies between two attempts, at most max_retries
\* attempts are made and no sleep follows the last.
C8_ExponentialBackoff ==
    \A p \in Tasks :
        task[p].op = "generate" =>
            /\ task[p].attempt <= MaxRetries - 1
            /\ Len(task[p].sleeps) = task[p].attempt + (IF task[p].pc = "backoff" THEN 1 ELSE 0)
            /\ Len(task[p].sleeps) <= MaxRetries - 1
            /\ \A k \in 0..(Len(task[p].sleeps) - 1) : task[p].sleeps[k + 1] = 1 * (2 ^ k)

\* A call that failed three times slept 1 s, then 2 s, and fell back.
C8_Witness ==
    \E p \in Tasks :
        /\ task[p].pc = "done"
        /\ task[p].result = "fallback"
        /\ task[p].attempt = MaxRetries - 1
        /\ task[p].sleeps = <<1, 2>>

\* A call of generate() that is over without a generated value.
GaveUp(p) == task[p].op = "generate" /\ task[p].pc = "done" /\ task[p].result # "success"

\* C9, as claimed: generate() gives up before its third attempt only on a
\* daily-quota error.
C9_OthersAlwaysRetried ==
    \A p \in Tasks :
        (GaveUp(p) /\ task[p].lastErr \notin DailyErrors) => task[p].attempt = MaxRetries - 1

\* The errors whose lower-cased text does not hold the word "quota".
NoQuotaErrors ==
    {e \in LimiterErrors \cup RemoteErrors \cup OutputErrors :
        ~Contains(QuotaWord, Lower(Str(e)))}

\* C9, amended: generate() gives up before its third attempt only on a
\* daily-quota error or on a ResourceExhausted error whose text does not say
\* "quota"; every other failed attempt is retried.
C9_RetriedUnlessNotQuota ==
    \A p \in Tasks :
        (GaveUp(p) /\ task[p].attempt < MaxRetries - 1) =>
            \/ task[p].lastErr \in DailyErrors
            \/ IsResourceExhausted(task[p].lastErr) /\ task[p].lastErr \in NoQuotaErrors

\* A call gave up after three attempts, the last one failing on a per-minute
\* quota error of the API.
C9_Witness ==
    \E p \in Tasks :
        /\ GaveUp(p)
        /\ task[p].attempt = MaxRetries - 1
        /\ task[p].lastErr = "remote_minute"

\* The schemas for which one of the two try blocks of the fallback builds a
\* valid instance.
SynthesisWorks ==
    {s \in Schemas :
        \/ model_validate(SchemaOf(s), fallback_instance(SchemaOf(s)))
        \/ model_validate(SchemaOf(s), minimal_defaults(SchemaOf(s)))}

\* C10: a call of generate() ends with a generated value, with a fallback or
\* with an exception, and with an exception exactly when it fell back on a
\* schema for which fallback synthesis builds no valid instance.
C10_RaisesOnlyOnSynthesisFailure ==
    \A p \in Tasks :
        (task[p].op = "generate" /\ task[p].pc = "done") =>
            /\ task[p].result \in {"success", "fallback", "raised"}
            /\ task[p].result = "raised" <=>
                  (task[p].lastErr # None /\ task[p].schema \notin SynthesisWorks)

\* A call fell back after a limiter error on a schema whose fallback cannot be
\* built, and raised.
C10_Witness ==
    \E p \in Tasks :
        /\ task[p].pc = "done"
        /\ task[p].result = "raised"
        /\ task[p].schema = "Ticket"
        /\ task[p].lastErr \in LimiterErrors

\* The default by "type" alone, as the precedence of C13 and the table of C15
\* give it.
TypeDefault(field_type) ==
    CASE field_type = "string" -> "'unavailable'"
      [] field_type = "integer" -> "0"
      [] field_type = "number" -> "0.0"
      [] field_type = "boolean" -> "False"
      [] field_type = "array" -> "[]"
      [] field_type = "object" -> "{}"
      [] OTHER -> "'unavailable'"

\* The value the precedence of C13 gives a field: its explicit default, else
\* the value of the first non-null variant of its union, else its first enum
\* value, else the default of its type (a reference is an empty object).
RECURSIVE ClaimedDefault(_)
ClaimedDefault(field_info) ==
    IF "default" \in DOMAIN field_info THEN field_info["default"]
    ELSE IF "anyOf" \in DOMAIN field_info
    THEN LET options == field_info["anyOf"]
             nonNull == {i \in DOMAIN options : Get(options[i], "type", None) # "null"}
         IN  IF nonNull = {} THEN "None"
             ELSE ClaimedDefault(options[CHOOSE i \in nonNull : \A j \in nonNull : i <= j])
    ELSE IF "enum" \in DOMAIN field_info /\ Len(field_info["enum"]) > 0
    THEN field_info["enum"][1]
    ELSE IF "ref" \in DOMAIN field_info /\ "type" \notin DOMAIN field_info THEN "{}"
    ELSE TypeDefault(Get(field_info, "type", None))

\* C13: every field of the synthesized instance holds the value of the fixed
\* precedence explicit default, first non-null variant of a union, first enum
\* value, type-based default; so a field with a type and an explicit default
\* or an enum holds that default or the first enum value.
C13_PrecedenceOfDefaults ==
    \A i \in DOMAIN synth.runs :
        \A name \in DOMAIN synth.schema.properties :
            synth.runs[i][name] = ClaimedDefault(synth.schema.properties[name])

\* The fields of a schema: its required names and the names of its properties.
FieldsOf(schema) == Range(schema.required) \cup DOMAIN schema.properties

\* A union that has no variant but null, for which None is the only value.
NullUnion(field_info) ==
    /\ "type" \notin DOMAIN field_info
    /\ "anyOf" \in DOMAIN field_info
    /\ \A i \in DOMAIN field_info["anyOf"] : Get(field_info["anyOf"][i], "type", None) = "null"

RequiredPrimitives(schema) ==
    /\ Range(schema.required) = DOMAIN schema.properties
    /\ \A name \in DOMAIN schema.properties : schema.properties[name] \in PrimitiveInfos

\* C15: for a schema of N required fields of primitive kinds, the synthesized
\* instance has exactly those N keys, and each holds the default of its kind:
\* 'unavailable', 0, 0.0, False, [] or {}.
C15_PrimitiveDefaults ==
    \A i \in DOMAIN synth.runs :
        RequiredPrimitives(synth.schema) =>
            /\ DOMAIN synth.runs[i] = Range(synth.schema.required)
            /\ Cardinality(DOMAIN synth.runs[i]) = Len(synth.schema.required)
            /\ \A name \in DOMAIN synth.runs[i] :
                   synth.runs[i][name] = TypeDefault(synth.schema.properties[name].type)

\* A schema of as many required primitive fields as there are names, an
\* integer and a number among them, was synthesized.
C15_Witness ==
    /\ Len(synth.runs) > 0
    /\ RequiredPrimitives(synth.schema)
    /\ Len(synth.schema.required) = MaxFields
    /\ \E a, b \in DOMAIN synth.schema.properties :
           /\ synth.schema.properties[a].type = "integer"
           /\ synth.schema.properties[b].type = "number"

\* C16: embed() never ends with an exception; the vectors it has built are one
\* per item tried, in the order of the texts: the i-th is the embedding of
\* the i-th text when the i-th item went through and the filler of 768 times
\* 0.1 when it failed; and when embed() returns, there are as many vectors as
\* texts.
C16_OneVectorPerText ==
    \A p \in Tasks :
        task[p].op = "embed" =>
            /\ task[p].result \in {None, "returned"}
            /\ Len(task[p].vectors) = Len(task[p].outcomes)
            /\ Len(task[p].vectors) + task[p].todo = task[p].batch
            /\ task[p].pc = "done" =>
                   task[p].result = "returned" /\ Len(task[p].vectors) = task[p].batch
            /\ \A i \in DOMAIN task[p].vectors :
                   task[p].vectors[i] =
                       IF task[p].outcomes[i] = "ok"
                       THEN [values |-> "embedding", text |-> i, length |-> 768]
                       ELSE [values |-> "0.1", text |-> 0, length |-> 768]

\* embed() returned for a full batch whose first item failed and whose last
\* item went through.
C16_Witness ==
    \E p \in Tasks :
        /\ task[p].op = "embed"
        /\ task[p].pc = "done"
        /\ task[p].batch = MaxBatch
        /\ task[p].outcomes[1] = "failed"
        /\ task[p].outcomes[MaxBatch] = "ok"

Marked(info) ==
    /\ info.model = ModelName \o "_fallback"
    /\ info.input_tokens = 0
    /\ info.output_tokens = 0
    /\ info.duration = 0

\* C11: a result of generate() bears the marks of a fallback (the model name
\* with "_fallback" appended, no input tokens, no output tokens, no duration)
\* exactly when it was returned on a fallback path, that is after a last
\* attempt that failed; a result of a remote generation never bears them.
C11_FallbackIsMarked ==
    \A p \in Tasks :
        (task[p].op = "generate" /\ task[p].pc = "done") =>
            /\ Marked(task[p].info) <=> (task[p].lastErr # None /\ task[p].result # "raised")
            /\ task[p].result = "success" =>
                   task[p].info.model = ModelName /\ task[p].info.input_tokens > 0

\* A fallback built by the second try block was returned after the limiter
\* refused the call.
C11_Witness ==
    \E p \in Tasks :
        /\ task[p].pc = "done"
        /\ task[p].result = "fallback"
        /\ task[p].content = "minimal_defaults"
        /\ task[p].lastErr \in LimiterErrors
        /\ Marked(task[p].info)

\* C12: with the remote API unreachable, a call of generate() that slept in
\* the limiter is over at some time after its sleep.
C12_GenerateReturnsWhenDown ==
    \A p \in Tasks :
        (task[p].op = "generate" /\ task[p].pc = "sleeping" /\ clock >= task[p].wakeAt)
            ~> (task[p].pc = "done")

\* C17: a call of embed() that slept in the limiter returns at some time after
\* its sleep.
C17_EmbedTerminates ==
    \A p \in Tasks :
        (task[p].op = "embed" /\ task[p].pc = "sleeping" /\ clock >= task[p].wakeAt)
            ~> (task[p].result = "returned")

\* C19: a call of generate() whose last answer could not be parsed into the
\* schema (json.loads() rejected the text and the sample was taken, or
\* model_validate() rejected the parsed object) ends with the fallback and its
\* marks, or with the exception of a fallback that cannot be built.
C19_UnparsedOutputFallsBack ==
    \A p \in Tasks :
        (/\ task[p].op = "generate"
         /\ task[p].pc = "done"
         /\ task[p].content = "dummy_instance" \/ task[p].lastErr = "invalid_output") =>
            \/ task[p].result = "raised"
            \/ /\ task[p].result = "fallback"
               /\ task[p].content \in {"fallback_instance", "minimal_defaults"}
               /\ Marked(task[p].info)

\* mark_quota_exhausted() is called in this step by task p.
Marks(p) ==
    /\ task'[p].op = "generate"
    /\ task'[p].pc = "done"
    /\ task'[p].lastErr = "remote_day"

\* C20: every read and every write of minute_calls, day_calls and
\* daily_quota_exhausted that a call of wait_if_needed() or of
\* mark_quota_exhausted() makes is made inside `async with self.lock`.
C20_AllAccessUnderLock ==
    [][\A p \in Tasks :
          /\ Enters(p) =>
                LET trace == Trace(wait_if_needed(p).outcome)
                IN  \A i \in DOMAIN trace :
                        trace[i].kind \in {"read", "write"} => HeldAt(trace, i)
          /\ (Acts(p) /\ Marks(p)) =>
                \A i \in DOMAIN MarkTrace : HeldAt(MarkTrace, i)]_vars

\* C21: the remote API is called only in a step in which a task entered
\* wait_if_needed() and was admitted, once per such step; a step in which
\* wait_if_needed() raised calls nothing; and the calls made never outnumber
\* the timestamps recorded.
C21_RemoteOnlyAfterAdmission ==
    [][/\ remote_calls' # remote_calls =>
            /\ remote_calls' = remote_calls + 1
            /\ \E p \in Tasks :
                  /\ Enters(p)
                  /\ wait_if_needed(p).outcome = "admitted"
                  /\ admitted' = Append(admitted, clock)
       /\ \A p \in Tasks :
            (Enters(p) /\ wait_if_needed(p).outcome \in {"raise_flag", "raise_day"}) =>
                remote_calls' = remote_calls
       /\ remote_calls' <= Len(admitted')]_vars

\* The remote API was called, and one attempt was refused by the limiter
\* without a call.
C21_Witness ==
    /\ remote_calls >= 1
    /\ remote_calls = Len(admitted)
    /\ \E p \in Tasks : task[p].lastErr \in LimiterErrors

\* The outcomes of wait_if_needed() the claims name: it returned, it went to
\* sleep for a slot, or it raised.
Answered == {"admitted", "suspend", "raise_flag", "raise_day"}

\* No entry of the list is as old as the window is long.
Fresh(call_times, now, window) == \A i \in DOMAIN call_times : now - call_times[i] < window

\* C22: after a call of wait_if_needed(), whether it admitted the caller, put
\* it to sleep or raised, minute_calls holds no timestamp one minute old or
\* older and day_calls none one day old or older.
C22_PrunedOnEveryCheck ==
    [][\A p \in Tasks :
          (Enters(p) /\ wait_if_needed(p).outcome \in Answered) =>
              /\ Fresh(minute_calls', clock, Minute)
              /\ Fresh(day_calls', clock, Day)]_vars

\* C26: once the sleep of a caller holding the lock is over, the lock is
\* released at some later time, and a caller queued on it meanwhile leaves
\* the queue.
C26_LockReleasedAfterSleep ==
    \A p \in Tasks :
        (lock = p /\ task[p].pc = "sleeping" /\ clock >= task[p].wakeAt)
            ~> (lock # p /\ \A q \in Tasks \ {p} : task[q].pc # "blocked")

\* C27: a call of wait_if_needed() that raises records no timestamp: raising
\* for the flag it leaves both lists as they were; raising for the per-day
\* window it only drops the expired entries of both and sets the flag.
C27_RaiseRecordsNothing ==
    [][\A p \in Tasks :
          /\ (Enters(p) /\ wait_if_needed(p).outcome = "raise_flag") =>
                /\ minute_calls' = minute_calls
                /\ day_calls' = day_calls
                /\ admitted' = admitted
          /\ (Enters(p) /\ wait_if_needed(p).outcome = "raise_day") =>
                /\ minute_calls' = SelectSeq(minute_calls, LAMBDA c : clock - c < Minute)
                /\ day_calls' = SelectSeq(day_calls, LAMBDA c : clock - c < Day)
                /\ admitted' = admitted
                /\ daily_quota_exhausted']_vars

\* Both kinds of refusal happened: a caller was refused for the flag while the
\* lists held timestamps, and the flag was set by a full per-day window.
C27_Witness ==
    /\ Len(day_calls) >= CallsPerDay
    /\ \E p, q \in Tasks :
          /\ task[p].lastErr = "limiter_day"
          /\ task[q].lastErr = "limiter_flag"

\* The list is in non-decreasing order.
Sorted(call_times) ==
    \A i, j \in DOMAIN call_times : i <= j => call_times[i] <= call_times[j]

\* C30: minute_calls and day_calls are sorted, oldest first; every timestamp
\* of minute_calls is in day_calls; and neither list is longer than its limit.
C30_ListsSortedAndBounded ==
    /\ Sorted(minute_calls)
    /\ Sorted(day_calls)
    /\ \A i \in DOMAIN minute_calls : \E j \in DOMAIN day_calls : day_calls[j] = minute_calls[i]
    /\ Len(minute_calls) <= CallsPerMinute
    /\ Len(day_calls) <= CallsPerDay

\* Both lists are full and hold timestamps of different times, and an entry
\* of the day is no longer in the minute.
C30_Witness ==
    /\ Len(minute_calls) = CallsPerMinute
    /\ Len(day_calls) = CallsPerDay
    /\ day_calls[1] < day_calls[Len(day_calls)]
    /\ \E j \in DOMAIN day_calls : \A i \in DOMAIN minute_calls : minute_calls[i] # day_calls[j]

\* The first list opens the second.
IsPrefix(kept, call_times) ==
    Len(kept) <= Len(call_times) /\ SubSeq(call_times, 1, Len(kept)) = kept

\* The unexpired entries of the list.
Unexpired(call_times, window) == SelectSeq(call_times, LAMBDA c : clock - c < window)

\* C28: an attempt that passes the limiter adds one timestamp, the time of the
\* attempt, to each list, whatever the vendor call then does; no step takes an
\* unexpired timestamp out of a list; a call of generate() records at most
\* max_retries timestamps and a call of embed() at most one for each text.
C28_SlotsAreConsumed ==
    [][/\ \A p \in Tasks :
            (Enters(p) /\ wait_if_needed(p).outcome = "admitted") =>
                /\ minute_calls' = Append(Unexpired(minute_calls, Minute), clock)
                /\ day_calls' = Append(Unexpired(day_calls, Day), clock)
                /\ task'[p].slots = (IF task[p].pc = "idle" THEN 0 ELSE task[p].slots) + 1
       /\ minute_calls' # minute_calls =>
              IsPrefix(Unexpired(minute_calls, Minute), Unexpired(minute_calls', Minute))
       /\ day_calls' # day_calls =>
              IsPrefix(Unexpired(day_calls, Day), Unexpired(day_calls', Day))
       /\ \A p \in Tasks :
            /\ task'[p].op = "generate" => task'[p].slots \in 0..MaxRetries
            /\ task'[p].op = "embed" => task'[p].slots \in 0..task'[p].batch]_vars

\* A call of generate() was admitted max_retries times, failed each time and
\* returned the fallback; so did a call refused every time, with no slot used.
C28_Witness ==
    \E p, q \in Tasks :
        /\ task[p].op = "generate" /\ task[p].pc = "done"
        /\ task[p].result = "fallback" /\ task[p].slots = MaxRetries
        /\ task[q].op = "generate" /\ task[q].pc = "done" /\ task[q].slots = 0

\* C23: main() of each script, run without an API key in the environment,
\* prints its error message and returns; no server is constructed and no
\* agent, tool, guideline or journey is created.
C23_NoKeyNoServer ==
    (Not(Get(app.environ, "GEMINI_API_KEY", None)) /\ app.pc # "main") =>
        /\ app.pc = "returned"
        /\ Len(app.printed) >= 1
        /\ app.printed[1] = "Error: GEMINI_API_KEY environment variable is required"
        /\ ~app.server
        /\ app.agents = 0
        /\ app.tools = {}
        /\ app.guidelines = 0
        /\ app.journeys = {}
        /\ app.states = {} /\ app.edges = {}

\* main_enhanced.py has returned after its two lines, the variable being unset.
C23_Witness ==
    /\ app.script = Enhanced
    /\ "GEMINI_API_KEY" \notin DOMAIN app.environ
    /\ app.pc = "returned"
    /\ Len(app.printed) = 2

\* C24: the model name of the service the server loads is the value of
\* GEMINI_MODEL when the variable is set and "gemini-1.5-flash" when it is not.
C24_ModelNameDefault ==
    app.server =>
        app.model_name = IF "GEMINI_MODEL" \in DOMAIN app.environ
                         THEN app.environ["GEMINI_MODEL"]
                         ELSE "gemini-1.5-flash"

\* C25: whatever tool of whatever script the agent called, and wherever the
\* tool ended, the call gave a result whose control holds a lifespan of
\* "session" or "response".
C25_EveryResultHasLifespan ==
    app.result.tool # None =>
        /\ app.result.raised = None
        /\ app.result.control # EmptyDict
        /\ app.result.control.lifespan \in {"session", "response"}

\* The ids of the journey's states of the given kind and value.
StatesOf(kind, value) == {st.id : st \in {x \in app.states : x.kind = kind /\ x.value = value}}

\* The chat state that confirms the details.
ConfirmStates ==
    StatesOf("chat_state", "Confirm the details with the patient before scheduling")

\* The tool state that schedules the appointment.
ScheduleStates == StatesOf("tool_state", "schedule_appointment")

\* C29: in the scheduling journey as far as it is built, every transition
\* into the schedule_appointment state leaves the state that confirms the
\* details, and every transition into that state bears the condition "The
\* patient picks a time"; and an agent standing at schedule_appointment came
\* there from the confirming state, which it had entered on that condition.
C29_ScheduleOnlyAfterConfirm ==
    /\ \A edge \in app.edges :
          /\ edge.target \in ScheduleStates => edge.source \in ConfirmStates
          /\ edge.target \in ConfirmStates => edge.condition = "The patient picks a time"
    /\ app.at \in ScheduleStates =>
          /\ Len(app.path) >= 2
          /\ app.path[Len(app.path)].source \in ConfirmStates
          /\ app.path[Len(app.path) - 1].target \in ConfirmStates
          /\ app.path[Len(app.path) - 1].condition = "The patient picks a time"

\* The agent stands at schedule_appointment and came by the later slots.
C29_Witness ==
    /\ app.at \in ScheduleStates
    /\ \E i \in DOMAIN app.path : app.path[i].target \in StatesOf("tool_state", "get_later_slots")
    /\ app.result.tool = "schedule_appointment"

====
